---- MODULE Spec2Model ----
(***************************************************************************)
(* Model of tools/elfdeps.c: the ELF dependency extractor.  One run of     *)
(* main() walks a batch of paths; processFile() scans each object and      *)
(* prints either its provides or its requires.                             *)
(*                                                                         *)
(* C strings are sequences of one-character strings, so that strstr,       *)
(* strncmp, strrchr and the "%s(%s)%s" formatting are computed, not        *)
(* assumed.  NULL is a value no string is equal to.                        *)
(***************************************************************************)
EXTENDS Integers, Sequences, FiniteSets, TLC

VARIABLES
    soname_only, fake_soname, filter_soname,   \* configuration flags (globals)
    require_interp, add_arch, add_nonarch,
    requires,        \* main(): the -R switch, passed as dtype
    fs,              \* the file system: path -> file
    useArgs,         \* main(): paths come from argv (TRUE) or from stdin lines
    inputs,          \* the argv paths, or the stdin lines (newline-terminated)
    next,            \* index of the next argv path / stdin line
    pc,              \* control position
    fn,              \* processFile(): the path being processed
    ei,              \* processFile(): the elfInfo of the call, NULL outside one
    scn,             \* processSections(): index of the section scanned last
    prc,             \* processFile(): its local rc
    rc,              \* main(): its local rc, the exit status
    out,             \* lines written to stdout, in order
    log,             \* per processFile call: path, lines printed, value returned
    heap             \* contents of the most recently freed elfInfo block

flags == <<soname_only, fake_soname, filter_soname, require_interp, add_arch, add_nonarch>>
vars == <<soname_only, fake_soname, filter_soname, require_interp, add_arch,
          add_nonarch, requires, fs, useArgs, inputs, next, pc, fn, ei, scn,
          prc, rc, out, log, heap>>

-----------------------------------------------------------------------------
(* Bounds of the model *)

\* most paths in one batch
MaxArgs == 2
\* longest auxiliary chain of a generated version-definition record
MaxAux == 2

-----------------------------------------------------------------------------
(* C strings *)

\* the NULL of a char *, and the NULL of a pointer to a struct
NULL == <<"NULL">>
NULLP == [null |-> TRUE]
NUL == "NUL"
EXIT_FAILURE == 1

\* string literals of the source

s_dot_so == <<".", "s", "o">>
s_lib == <<"l", "i", "b">>
s_ld_dot == <<"l", "d", ".">>
s_ld_dash == <<"l", "d", "-">>
s_ld64_dot == <<"l", "d", "6", "4", ".">>
s_ld64_dash == <<"l", "d", "6", "4", "-">>
s_rtld_GNU_HASH == <<"r", "t", "l", "d", "(", "G", "N", "U", "_", "H", "A", "S", "H", ")">>
m_64bit == <<"(", "6", "4", "b", "i", "t", ")">>
m_i386 == <<"(", "i", "3", "8", "6", ")">>
m_m68k == <<"(", "m", "6", "8", "k", ")">>
m_aarch64 == <<"(", "a", "a", "r", "c", "h", "6", "4", ")">>
m_aarch64_be == <<"(", "a", "a", "r", "c", "h", "6", "4", "_", "b", "e", ")">>
m_alpha == <<"(", "a", "l", "p", "h", "a", ")">>
m_arm == <<"(", "a", "r", "m", ")">>
m_ia64 == <<"(", "i", "a", "6", "4", ")">>
m_mips64le == <<"(", "m", "i", "p", "s", "6", "4", "l", "e", ")">>
m_mips64 == <<"(", "m", "i", "p", "s", "6", "4", ")">>
m_mipsel == <<"(", "m", "i", "p", "s", "e", "l", ")">>
m_mips == <<"(", "m", "i", "p", "s", ")">>
m_hppa64 == <<"(", "h", "p", "p", "a", "6", "4", ")">>
m_ppcle == <<"(", "p", "p", "c", "l", "e", ")">>
m_ppc == <<"(", "p", "p", "c", ")">>
m_ppc64le == <<"(", "p", "p", "c", "6", "4", "l", "e", ")">>
m_ppc64 == <<"(", "p", "p", "c", "6", "4", ")">>
m_riscv64 == <<"(", "r", "i", "s", "c", "v", "6", "4", ")">>
m_riscv32 == <<"(", "r", "i", "s", "c", "v", "3", "2", ")">>
m_s390x == <<"(", "s", "3", "9", "0", "x", ")">>
m_s390 == <<"(", "s", "3", "9", "0", ")">>
m_shl == <<"(", "s", "h", "l", ")">>
m_sh == <<"(", "s", "h", ")">>
m_sparc64 == <<"(", "s", "p", "a", "r", "c", "6", "4", ")">>
m_sparc == <<"(", "s", "p", "a", "r", "c", ")">>
m_x86_64 == <<"(", "x", "8", "6", "_", "6", "4", ")">>
m_unknown64 == <<"(", "u", "n", "k", "n", "o", "w", "n", "6", "4", ")">>
m_unknown == <<"(", "u", "n", "k", "n", "o", "w", "n", ")">>
m_armeb_raw == <<"a", "r", "m", "e", "b">>
m_hppa_raw == <<"h", "p", "p", "a">>

\* names, versions, interpreters and paths the generated objects use
s_empty == <<>>
s_blank == <<" ">>
s_libfoo_so_1 == <<"l", "i", "b", "f", "o", "o", ".", "s", "o", ".", "1">>
s_libc_so_6 == <<"l", "i", "b", "c", ".", "s", "o", ".", "6">>
s_ld_so_1 == <<"l", "d", ".", "s", "o", ".", "1">>
s_ld_linux_so_2 == <<"l", "d", "-", "l", "i", "n", "u", "x", ".", "s", "o", ".", "2">>
s_ld64_so_2 == <<"l", "d", "6", "4", ".", "s", "o", ".", "2">>
s_ld64_x_so == <<"l", "d", "6", "4", "-", "x", ".", "s", "o">>
s_ld6x_so == <<"l", "d", "6", "x", ".", "s", "o">>
s_ld64foo_so == <<"l", "d", "6", "4", "f", "o", "o", ".", "s", "o">>
s_foo_so == <<"f", "o", "o", ".", "s", "o">>
s_plugin == <<"p", "l", "u", "g", "i", "n">>
s_libplugin == <<"l", "i", "b", "p", "l", "u", "g", "i", "n">>
s_GLIBC_2_2 == <<"G", "L", "I", "B", "C", "_", "2", ".", "2">>
s_GLIBC_2_3 == <<"G", "L", "I", "B", "C", "_", "2", ".", "3">>
s_LIBFOO_1_ == <<"L", "I", "B", "F", "O", "O", "_", "1", ".">>
s_interp_ld_so == <<"/", "l", "i", "b", "/", "l", "d", ".", "s", "o", ".", "1">>
s_interp_nodot == <<"/", "l", "i", "b", "/", "l", "d">>
p_libz_so == <<"l", "i", "b", "z", ".", "s", "o">>
p_usr_lib_libq == <<"/", "u", "s", "r", "/", "l", "i", "b", "/", "l", "i", "b", "q", ".", "s", "o", ".", "2">>
p_plugins_mod == <<"p", "l", "u", "g", "i", "n", "s", "/", "m", "o", "d", ".", "s", "o">>
p_usr_bin_tool == <<"/", "u", "s", "r", "/", "b", "i", "n", "/", "t", "o", "o", "l">>

-----------------------------------------------------------------------------
(* libc / rpmio helpers, as the source uses them *)

Min(a, b) == IF a < b THEN a ELSE b

\* risspace(c)
risspace(c) == c \in {" ", "\t", "\n", "\r", "\f", "VT"}

\* strstr(s, sub) != NULL
strstr(s, sub) ==
    \E i \in 1..(Len(s) - Len(sub) + 1) : SubSeq(s, i, i + Len(sub) - 1) = sub

\* rstreqn(s1, s2, n): strncmp(s1, s2, n) == 0; the comparison stops at the
\* terminating NUL of either string or after n characters
rstreqn(s1, s2, n) ==
    LET c1 == s1 \o <<NUL>>
        c2 == s2 \o <<NUL>>
    IN  SubSeq(c1, 1, Min(n, Len(c1))) = SubSeq(c2, 1, Min(n, Len(c2)))

\* strrchr(s, c): index of the last c in s, 0 when there is none
strrchr(s, c) ==
    LET at == {i \in 1..Len(s) : s[i] = c}
    IN  IF at = {} THEN 0 ELSE CHOOSE i \in at : \A k \in at : k <= i

\* rasprintf(&dep, "%s(%s)%s", soname, ver, marker)
rasprintf(soname, ver, marker) == soname \o <<"(">> \o ver \o <<")">> \o marker

\* argvAdd(&argv, val)
argvAdd(argv, val) == Append(argv, val)

-----------------------------------------------------------------------------
(* Dependency policy *)

\* the scan for a non-whitespace character, lines 52-57
sane(soname) == \E i \in 1..Len(soname) : ~risspace(soname[i])

skipSonameNoDotSoCheck(soname) ==
    IF ~sane(soname) THEN TRUE
    ELSE IF filter_soname THEN
        IF rstreqn(soname, s_ld_dot, 3) \/ rstreqn(soname, s_ld_dash, 3)
           \/ rstreqn(soname, s_ld64_dot, 3) \/ rstreqn(soname, s_ld64_dash, 3)
        THEN FALSE
        ELSE IF rstreqn(soname, s_lib, 3) THEN FALSE ELSE TRUE
    ELSE FALSE

skipSoname(soname) ==
    IF ~sane(soname) THEN TRUE
    ELSE IF filter_soname THEN
        IF ~strstr(soname, s_dot_so) THEN TRUE
        ELSE IF rstreqn(soname, s_ld_dot, 3) \/ rstreqn(soname, s_ld_dash, 3)
                \/ rstreqn(soname, s_ld64_dot, 3) \/ rstreqn(soname, s_ld64_dash, 3)
        THEN FALSE
        ELSE IF rstreqn(soname, s_lib, 3) THEN FALSE ELSE TRUE
    ELSE FALSE

genRequiresExecOnly(e) == e.isExec # {}

genRequiresAlways(e) == TRUE

\* isExec holds the masked mode bits; it is 0 when the set is empty
genRequires(e) == ~(e.interp # NULL /\ e.isExec = {})

mkmarker(ehdr) ==
    IF ehdr.ei_class = "ELFCLASS64"
    THEN IF ehdr.e_machine \in {"EM_ALPHA", "EM_FAKE_ALPHA"} THEN NULL ELSE m_64bit
    ELSE NULL

mkarchmarker(ehdr) ==
    LET is64 == ehdr.ei_class = "ELFCLASS64"
        isle == ehdr.ei_data = "ELFDATA2LSB"
        m == ehdr.e_machine
    IN  CASE m = "EM_386" -> m_i386
          [] m = "EM_68K" -> m_m68k
          [] m = "EM_AARCH64" -> IF isle THEN m_aarch64 ELSE m_aarch64_be
          [] m \in {"EM_ALPHA", "EM_FAKE_ALPHA"} -> m_alpha
          [] m = "EM_ARM" -> IF isle THEN m_arm ELSE m_armeb_raw
          [] m = "EM_IA_64" -> m_ia64
          [] m = "EM_MIPS" -> IF is64 /\ isle THEN m_mips64le
                              ELSE IF is64 THEN m_mips64
                              ELSE IF isle THEN m_mipsel ELSE m_mips
          [] m = "EM_PARISC" -> IF is64 THEN m_hppa64 ELSE m_hppa_raw
          [] m = "EM_PPC" -> IF isle THEN m_ppcle ELSE m_ppc
          [] m = "EM_PPC64" -> IF isle THEN m_ppc64le ELSE m_ppc64
          [] m = "EM_RISCV" -> IF is64 THEN m_riscv64 ELSE m_riscv32
          [] m = "EM_S390" -> IF is64 THEN m_s390x ELSE m_s390
          [] m = "EM_SH" -> IF isle THEN m_shl ELSE m_sh
          [] m \in {"EM_SPARC", "EM_SPARC32PLUS", "EM_SPARCV9"} ->
                 IF is64 THEN m_sparc64 ELSE m_sparc
          [] m = "EM_X86_64" -> m_x86_64
          [] OTHER -> IF is64 THEN m_unknown64 ELSE m_unknown

addDepDropEmptyVer(deps, soname, ver, marker) ==
    IF skipSoname(soname) THEN deps
    ELSE IF ver # NULL
         THEN argvAdd(deps, rasprintf(soname, ver, IF marker # NULL THEN marker ELSE <<>>))
         ELSE argvAdd(deps, soname \o (IF marker # NULL THEN marker ELSE <<>>))

addDep(deps, soname, ver, marker) ==
    IF skipSoname(soname) THEN deps
    ELSE IF ver # NULL \/ marker # NULL
         THEN argvAdd(deps, rasprintf(soname,
                                      IF ver # NULL THEN ver ELSE <<>>,
                                      IF marker # NULL THEN marker ELSE <<>>))
         ELSE argvAdd(deps, soname)

\* the two decoration passes that follow every raw fact:
\*   if (add_nonarch) addDep(.., ei->marker); if (add_arch) addDep(.., ei->archmarker);
addDeps(deps, soname, ver, e) ==
    LET d1 == IF add_nonarch THEN addDep(deps, soname, ver, e.marker) ELSE deps
    IN  IF add_arch THEN addDep(d1, soname, ver, e.archmarker) ELSE d1

-----------------------------------------------------------------------------
(* libelf accessors over a section's data block.  A block is a map from    *)
(* byte offsets to the records stored there; an access outside it is NULL. *)

gelf_getverdef(data, offset) ==
    IF offset \in DOMAIN data.verdef THEN data.verdef[offset] ELSE NULLP

gelf_getverdaux(data, auxoffset) ==
    IF auxoffset \in DOMAIN data.verdaux THEN data.verdaux[auxoffset] ELSE NULLP

gelf_getverneed(data, offset) ==
    IF offset \in DOMAIN data.verneed THEN data.verneed[offset] ELSE NULLP

gelf_getvernaux(data, auxoffset) ==
    IF auxoffset \in DOMAIN data.vernaux THEN data.vernaux[auxoffset] ELSE NULLP

-----------------------------------------------------------------------------
(* processVerDef *)

\* the inner loop, for (j = def->vd_cnt; --j >= 0; ): j iterations are left;
\* st = [soname, provides] is what the loop carries
RECURSIVE VerDefAuxLoop(_, _, _, _, _, _)
VerDefAuxLoop(data, def, j, auxoffset, st, e) ==
    IF j <= 0 THEN st
    ELSE LET aux == gelf_getverdaux(data, auxoffset)
         IN  IF aux = NULLP THEN st
             ELSE IF aux.vda_name = NULL THEN st
             ELSE IF "VER_FLG_BASE" \in def.vd_flags
                  THEN VerDefAuxLoop(data, def, j - 1, auxoffset + aux.vda_next,
                                     [st EXCEPT !.soname = aux.vda_name], e)
                  ELSE IF st.soname # NULL /\ ~soname_only
                  THEN VerDefAuxLoop(data, def, j - 1, auxoffset,
                           [st EXCEPT !.provides =
                                addDeps(st.provides, st.soname, aux.vda_name, e)], e)
                  ELSE VerDefAuxLoop(data, def, j - 1, auxoffset, st, e)

\* the outer loop, for (i = shdr->sh_info; --i >= 0; )
RECURSIVE VerDefLoop(_, _, _, _, _)
VerDefLoop(data, i, offset, st, e) ==
    IF i <= 0 THEN st
    ELSE LET def == gelf_getverdef(data, offset)
         IN  IF def = NULLP THEN st
             ELSE VerDefLoop(data, i - 1, offset + def.vd_next,
                             VerDefAuxLoop(data, def, def.vd_cnt,
                                           offset + def.vd_aux, st, e), e)

processVerDef(shdr, e) ==
    [e EXCEPT !.provides =
        VerDefLoop(shdr.data, shdr.sh_info, 0,
                   [soname |-> NULL, provides |-> e.provides], e).provides]

-----------------------------------------------------------------------------
(* processVerNeed *)

RECURSIVE VerNeedAuxLoop(_, _, _, _, _, _)
VerNeedAuxLoop(data, j, auxoffset, soname, reqs, e) ==
    IF j <= 0 THEN reqs
    ELSE LET aux == gelf_getvernaux(data, auxoffset)
         IN  IF aux = NULLP THEN reqs
             ELSE IF aux.vna_name = NULL THEN reqs
             ELSE VerNeedAuxLoop(data, j - 1, auxoffset + aux.vna_next, soname,
                      IF genRequires(e) /\ soname # NULL /\ ~soname_only
                      THEN addDeps(reqs, soname, aux.vna_name, e)
                      ELSE reqs, e)

RECURSIVE VerNeedLoop(_, _, _, _, _)
VerNeedLoop(data, i, offset, reqs, e) ==
    IF i <= 0 THEN reqs
    ELSE LET need == gelf_getverneed(data, offset)
         IN  IF need = NULLP THEN reqs
             ELSE IF need.vn_file = NULL THEN reqs
             ELSE VerNeedLoop(data, i - 1, offset + need.vn_next,
                              VerNeedAuxLoop(data, need.vn_cnt, offset + need.vn_aux,
                                             need.vn_file, reqs, e), e)

processVerNeed(shdr, e) ==
    [e EXCEPT !.requires = VerNeedLoop(shdr.data, shdr.sh_info, 0, e.requires, e)]

-----------------------------------------------------------------------------
(* processDynamic *)

\* one entry of the dynamic table, the switch on dyn->d_tag
DynEntry(dyn, e) ==
    CASE dyn.d_tag = "DT_HASH" -> [e EXCEPT !.gotHASH = TRUE]
      [] dyn.d_tag = "DT_GNU_HASH" -> [e EXCEPT !.gotGNUHASH = TRUE]
      [] dyn.d_tag = "DT_DEBUG" -> [e EXCEPT !.gotDEBUG = TRUE]
      [] dyn.d_tag = "DT_SONAME" ->
            IF dyn.d_val # NULL THEN [e EXCEPT !.soname = dyn.d_val] ELSE e
      [] dyn.d_tag = "DT_NEEDED" ->
            IF genRequires(e) /\ dyn.d_val # NULL
            THEN [e EXCEPT !.requires = addDeps(e.requires, dyn.d_val, NULL, e)]
            ELSE e
      [] OTHER -> e

RECURSIVE DynLoop(_, _, _)
DynLoop(data, i, e) ==
    IF i > Len(data) THEN e ELSE DynLoop(data, i + 1, DynEntry(data[i], e))

processDynamic(shdr, e) == DynLoop(shdr.data, 1, e)

-----------------------------------------------------------------------------
(* processSections: the body of the loop, one section *)

processSection(shdr, e) ==
    CASE shdr.sh_type = "SHT_GNU_verdef" -> processVerDef(shdr, e)
      [] shdr.sh_type = "SHT_GNU_verneed" -> processVerNeed(shdr, e)
      [] shdr.sh_type = "SHT_DYNAMIC" -> processDynamic(shdr, e)
      [] OTHER -> e

-----------------------------------------------------------------------------
(* processProgHeaders *)

RECURSIVE ProgHeaderLoop(_, _, _)
ProgHeaderLoop(file, i, e) ==
    IF i > Len(file.phdrs) THEN e
    ELSE LET phdr == file.phdrs[i]
         IN  IF phdr.p_type = "PT_INTERP" /\ phdr.p_offset < file.maxsize
             THEN [e EXCEPT !.interp = file.rawfile[phdr.p_offset]]
             ELSE ProgHeaderLoop(file, i + 1, e)

processProgHeaders(file, e) == ProgHeaderLoop(file, 1, e)

\* the text after the first '/', as strchr would find it
basenameFirstSlash(path) ==
    LET at == {i \in 1..Len(path) : path[i] = "/"}
    IN  IF at = {} THEN path
        ELSE SubSeq(path, (CHOOSE i \in at : \A k \in at : i <= k) + 1, Len(path))

\* bn = strrchr(fn, '/'); bn ? bn + 1 : fn
basename(path) ==
    LET bn == strrchr(path, "/")
    IN  IF bn # 0 THEN SubSeq(path, bn + 1, Len(path)) ELSE path

-----------------------------------------------------------------------------
(* The objects the model is run on *)

Digit(k) == <<"0", "1", "2", "3", "4", "5", "6", "7", "8", "9">>[k + 1]

\* LIBFOO_1.0, LIBFOO_1.1, ...
VerName(k) == s_LIBFOO_1_ \o <<Digit(k - 1)>>

VerNames(n) == [k \in 1..n |-> VerName(k)]

Dyn(tag) == [d_tag |-> tag, d_val |-> NULL]
DynStr(tag, s) == [d_tag |-> tag, d_val |-> s]

Dynamic(entries) == [sh_type |-> "SHT_DYNAMIC", data |-> entries]

\* offset of the k-th record when every record is followed by its auxiliary
\* entries and each structure takes one unit
RECURSIVE RecOffset(_, _)
RecOffset(recs, k) ==
    IF k = 1 THEN 0 ELSE RecOffset(recs, k - 1) + 1 + Len(recs[k - 1].names)

\* the <<record, position>> of every auxiliary entry
AuxSlots(recs) ==
    UNION {{<<k, t>> : t \in 1..Len(recs[k].names)} : k \in 1..Len(recs)}

RecAt(recs, o) == CHOOSE k \in 1..Len(recs) : RecOffset(recs, k) = o

AuxAt(recs, o) == CHOOSE kt \in AuxSlots(recs) : RecOffset(recs, kt[1]) + kt[2] = o

\* a version-definition section laid out from records [base, names]
MkVerDef(recs) ==
    [sh_type |-> "SHT_GNU_verdef",
     sh_info |-> Len(recs),
     data |->
      [verdef |->
         [o \in {RecOffset(recs, k) : k \in 1..Len(recs)} |->
            LET r == recs[RecAt(recs, o)]
            IN  [vd_flags |-> IF r.base THEN {"VER_FLG_BASE"} ELSE {},
                 vd_cnt |-> Len(r.names),
                 vd_aux |-> 1,
                 vd_next |-> IF RecAt(recs, o) < Len(recs) THEN 1 + Len(r.names) ELSE 0]],
       verdaux |->
         [o \in {RecOffset(recs, kt[1]) + kt[2] : kt \in AuxSlots(recs)} |->
            LET kt == AuxAt(recs, o)
            IN  [vda_name |-> recs[kt[1]].names[kt[2]],
                 vda_next |-> IF kt[2] < Len(recs[kt[1]].names) THEN 1 ELSE 0]]]]

\* a version-requirement section laid out from records [file, names]
MkVerNeed(recs) ==
    [sh_type |-> "SHT_GNU_verneed",
     sh_info |-> Len(recs),
     data |->
      [verneed |->
         [o \in {RecOffset(recs, k) : k \in 1..Len(recs)} |->
            LET r == recs[RecAt(recs, o)]
            IN  [vn_file |-> r.file,
                 vn_cnt |-> Len(r.names),
                 vn_aux |-> 1,
                 vn_next |-> IF RecAt(recs, o) < Len(recs) THEN 1 + Len(r.names) ELSE 0]],
       vernaux |->
         [o \in {RecOffset(recs, kt[1]) + kt[2] : kt \in AuxSlots(recs)} |->
            LET kt == AuxAt(recs, o)
            IN  [vna_name |-> recs[kt[1]].names[kt[2]],
                 vna_next |-> IF kt[2] < Len(recs[kt[1]].names) THEN 1 ELSE 0]]]]

Ehdr(type, class, data, machine) ==
    [e_type |-> type, ei_class |-> class, ei_data |-> data, e_machine |-> machine]

\* every soname the filter is tried on
Sonames ==
    <<s_libc_so_6, s_ld_so_1, s_ld_linux_so_2, s_ld64_so_2, s_ld64_x_so, s_ld6x_so,
      s_ld64foo_so, s_foo_so, s_plugin, s_libplugin, s_blank, s_empty>>

\* libfoo.so.1 with a base record and one non-base record of n auxiliary entries
LibFoo(n) ==
    [ehdr |-> Ehdr("ET_DYN", "ELFCLASS64", "ELFDATA2LSB", "EM_X86_64"),
     sections |->
       <<Dynamic(<<Dyn("DT_GNU_HASH"), DynStr("DT_SONAME", s_libfoo_so_1)>>),
         MkVerDef(<<[base |-> TRUE, names |-> <<s_libfoo_so_1>>],
                    [base |-> FALSE, names |-> VerNames(n)]>>)>>]

\* a shared object without DT_SONAME
NoSoname ==
    [ehdr |-> Ehdr("ET_DYN", "ELFCLASS64", "ELFDATA2LSB", "EM_X86_64"),
     sections |->
       <<Dynamic(<<Dyn("DT_HASH"), Dyn("DT_GNU_HASH"), DynStr("DT_NEEDED", s_libc_so_6)>>)>>]

\* a position-independent executable: ET_DYN with DT_DEBUG
Pie ==
    [ehdr |-> Ehdr("ET_DYN", "ELFCLASS32", "ELFDATA2LSB", "EM_386"),
     sections |->
       <<MkVerNeed(<<[file |-> s_libc_so_6, names |-> <<s_GLIBC_2_2, s_GLIBC_2_3>>],
                     [file |-> s_plugin, names |-> <<s_GLIBC_2_2>>]>>),
         Dynamic(<<DynStr("DT_NEEDED", s_libc_so_6), Dyn("DT_GNU_HASH"),
                   Dyn("DT_DEBUG")>>)>>]

\* an executable that needs every soname of Sonames
Exe ==
    [ehdr |-> Ehdr("ET_EXEC", "ELFCLASS32", "ELFDATA2MSB", "EM_PPC"),
     sections |->
       <<Dynamic(<<Dyn("DT_HASH")>> \o
                 [k \in 1..Len(Sonames) |-> DynStr("DT_NEEDED", Sonames[k])])>>]

\* a plugin: two DT_SONAME entries, a name without ".so", a non-base record
\* ahead of the base record
Odd ==
    [ehdr |-> Ehdr("ET_DYN", "ELFCLASS64", "ELFDATA2LSB", "EM_ALPHA"),
     sections |->
       <<MkVerDef(<<[base |-> FALSE, names |-> VerNames(1)],
                    [base |-> TRUE, names |-> <<s_plugin>>],
                    [base |-> FALSE, names |-> VerNames(1)]>>),
         Dynamic(<<DynStr("DT_SONAME", s_foo_so), DynStr("DT_SONAME", s_plugin),
                   Dyn("DT_GNU_HASH")>>)>>]

\* a relocatable object: neither ET_DYN nor ET_EXEC
Rel ==
    [ehdr |-> Ehdr("ET_REL", "ELFCLASS64", "ELFDATA2LSB", "EM_X86_64"),
     sections |->
       <<Dynamic(<<Dyn("DT_GNU_HASH"), DynStr("DT_NEEDED", s_libc_so_6)>>)>>]

\* a 32-bit shared object without any section of interest
Bare ==
    [ehdr |-> Ehdr("ET_DYN", "ELFCLASS32", "ELFDATA2LSB", "EM_386"),
     sections |-> <<[sh_type |-> "SHT_PROGBITS", data |-> <<>>]>>]

Bodies == {LibFoo(n) : n \in 1..MaxAux} \cup {NoSoname, Pie, Exe, Odd, Rel, Bare}

\* st_mode, as the set of its permission bits
Modes == {{"S_IRUSR"}, {"S_IRUSR", "S_IXUSR", "S_IXOTH"}}

\* program headers and the strings of the raw file they point into
NoInterp ==
    [phdrs |-> <<[p_type |-> "PT_LOAD", p_offset |-> 0]>>,
     maxsize |-> 2, rawfile |-> (0 :> s_interp_nodot @@ 1 :> s_interp_ld_so)]
InterpLdSo ==
    [phdrs |-> <<[p_type |-> "PT_LOAD", p_offset |-> 0],
                 [p_type |-> "PT_INTERP", p_offset |-> 1]>>,
     maxsize |-> 2, rawfile |-> (0 :> s_interp_nodot @@ 1 :> s_interp_ld_so)]
InterpNoDot ==
    [phdrs |-> <<[p_type |-> "PT_INTERP", p_offset |-> 5],
                 [p_type |-> "PT_INTERP", p_offset |-> 0],
                 [p_type |-> "PT_INTERP", p_offset |-> 1]>>,
     maxsize |-> 2, rawfile |-> (0 :> s_interp_nodot @@ 1 :> s_interp_ld_so)]
ProgHeaders == {NoInterp, InterpLdSo, InterpNoDot}

MkFile(body, mode, ph) ==
    [openable |-> TRUE, elf_kind |-> "ELF_K_ELF", ehdr |-> body.ehdr,
     st_mode |-> mode, phdrs |-> ph.phdrs, maxsize |-> ph.maxsize,
     rawfile |-> ph.rawfile, sections |-> body.sections]

\* a path that cannot be opened
FileMissing ==
    [openable |-> FALSE, elf_kind |-> "NULL", ehdr |-> NULLP, st_mode |-> {},
     phdrs |-> <<>>, maxsize |-> 0, rawfile |-> <<>>, sections |-> <<>>]
\* elf_begin fails
FileNoElf == [FileMissing EXCEPT !.openable = TRUE]
\* a file that is not an ELF object (a text file, an archive)
FileText == [FileMissing EXCEPT !.openable = TRUE, !.elf_kind = "ELF_K_NONE"]
FileAr == [FileMissing EXCEPT !.openable = TRUE, !.elf_kind = "ELF_K_AR"]
\* an ELF object whose header cannot be read
FileNoEhdr == [FileMissing EXCEPT !.openable = TRUE, !.elf_kind = "ELF_K_ELF"]

Objects ==
    {FileMissing, FileNoElf, FileText, FileAr, FileNoEhdr}
    \cup {MkFile(b, m, ph) : b \in Bodies, m \in Modes, ph \in ProgHeaders}

Paths == {p_libz_so, p_usr_lib_libq, p_plugins_mod, p_usr_bin_tool}

\* the file system of the batch runs
BatchFs ==
    (p_usr_lib_libq :> MkFile(NoSoname, {"S_IRUSR", "S_IXUSR", "S_IXOTH"}, NoInterp))
    @@ (p_libz_so :> FileMissing)
    @@ (p_plugins_mod :> FileText)
    @@ (p_usr_bin_tool :> MkFile(Exe, {"S_IRUSR", "S_IXUSR", "S_IXOTH"}, InterpLdSo))

-----------------------------------------------------------------------------
(* State after option parsing *)

\* rcalloc(1, sizeof(*ei)): a zeroed elfInfo
ZeroElfInfo ==
    [elf |-> FALSE, isDSO |-> FALSE, isExec |-> {}, gotDEBUG |-> FALSE,
     gotHASH |-> FALSE, gotGNUHASH |-> FALSE, soname |-> NULL, interp |-> NULL,
     marker |-> NULL, archmarker |-> NULL, requires |-> <<>>, provides |-> <<>>]

\* an allocation that is not cleared: whatever the freed block last held
rmallocStale == heap

rcalloc == ZeroElfInfo

\* fgets() keeps the newline that ends the line
Line(path) == path \o <<"\n">>

SeqsUpTo(S, n) == UNION {[1..k -> S] : k \in 0..n}

InitFlags ==
    /\ soname_only \in BOOLEAN
    /\ fake_soname \in BOOLEAN
    /\ filter_soname \in BOOLEAN
    /\ require_interp \in BOOLEAN
    /\ add_arch \in BOOLEAN
    /\ add_nonarch \in BOOLEAN
    /\ requires \in BOOLEAN

InitRest ==
    /\ next = 1
    /\ pc = "main"
    /\ fn = NULL
    /\ ei = NULLP
    /\ scn = 0
    /\ prc = 0
    /\ rc = 0
    /\ out = <<>>
    /\ log = <<>>
    /\ heap = ZeroElfInfo

\* one path on the command line, naming any object
InitSingle ==
    /\ InitFlags
    /\ useArgs = TRUE
    /\ \E p \in Paths, f \in Objects :
          /\ inputs = <<p>>
          /\ fs = [q \in Paths |-> f]
    /\ InitRest

\* a batch of paths over a fixed file system, from argv or from stdin
InitBatch ==
    /\ InitFlags
    /\ fs = BatchFs
    /\ \E ps \in SeqsUpTo(Paths, MaxArgs) :
          \/ /\ ps # <<>>
             /\ useArgs = TRUE
             /\ inputs = ps
          \/ /\ useArgs = FALSE
             /\ inputs = [k \in 1..Len(ps) |-> Line(ps[k])]
    /\ InitRest

Init == InitSingle \/ InitBatch

-----------------------------------------------------------------------------
(* main *)

\* entry of processFile(path, requires): rc = 1, ei = rcalloc(...)
CallProcessFile(path) ==
    /\ fn' = path
    /\ prc' = 1
    /\ ei' = rcalloc
    /\ scn' = 0
    /\ log' = Append(log, [fn |-> path, printed |-> <<>>, returned |-> FALSE, rc |-> 1])
    /\ pc' = "pf_open"

\* the result of the last call decides the exit status
AggregateLast(r, status) == status

\* if (processFile(fn, requires)) rc = EXIT_FAILURE;
Aggregate(r, status) == IF status # 0 THEN EXIT_FAILURE ELSE r

\* if (poptPeekArg(optCon))
MainPeekArg ==
    /\ pc = "main"
    /\ pc' = IF useArgs THEN "args_loop" ELSE "stdin_loop"
    /\ UNCHANGED <<flags, requires, fs, useArgs, inputs, next, fn, ei, scn, prc, rc,
                   out, log, heap>>

\* while ((fn = poptGetArg(optCon)) != NULL) processFile(fn, requires)
MainGetArg ==
    /\ pc = "args_loop"
    /\ next <= Len(inputs)
    /\ next' = next + 1
    /\ CallProcessFile(inputs[next])
    /\ UNCHANGED <<flags, requires, fs, useArgs, inputs, rc, out, heap>>

\* while (fgets(fn, sizeof(fn), stdin) != NULL) { fn[strlen(fn)-1] = '\0'; ... }
MainFgets ==
    /\ pc = "stdin_loop"
    /\ next <= Len(inputs)
    /\ next' = next + 1
    /\ CallProcessFile(SubSeq(inputs[next], 1, Len(inputs[next]) - 1))
    /\ UNCHANGED <<flags, requires, fs, useArgs, inputs, rc, out, heap>>

\* the loop ends: poptFreeContext(optCon); return rc;
MainReturn ==
    /\ pc \in {"args_loop", "stdin_loop"}
    /\ next > Len(inputs)
    /\ pc' = "done"
    /\ UNCHANGED <<flags, requires, fs, useArgs, inputs, next, fn, ei, scn, prc, rc,
                   out, log, heap>>

-----------------------------------------------------------------------------
(* processFile *)

\* open, fstat, elf_begin, elf_kind, gelf_getehdr: any failure leaves through
\* exit with rc still 1
ProcessFileOpen ==
    /\ pc = "pf_open"
    /\ LET f == fs[fn]
       IN  IF ~f.openable
           THEN /\ pc' = "pf_exit"
                /\ ei' = ei
           ELSE IF f.elf_kind = "NULL"
           THEN /\ pc' = "pf_exit"
                /\ ei' = ei
           ELSE IF f.elf_kind # "ELF_K_ELF"
           THEN /\ pc' = "pf_exit"
                /\ ei' = [ei EXCEPT !.elf = TRUE]
           ELSE IF f.ehdr = NULLP
           THEN /\ pc' = "pf_exit"
                /\ ei' = [ei EXCEPT !.elf = TRUE]
           ELSE /\ pc' = "pf_classify"
                /\ ei' = [ei EXCEPT !.elf = TRUE]
    /\ UNCHANGED <<flags, requires, fs, useArgs, inputs, next, fn, scn, prc, rc, out,
                   log, heap>>

\* if (e_type == ET_DYN || e_type == ET_EXEC) { markers, isDSO, isExec,
\* processProgHeaders, and on to processSections }
ProcessFileClassify ==
    /\ pc = "pf_classify"
    /\ LET f == fs[fn]
           ehdr == f.ehdr
       IN  IF ehdr.e_type = "ET_DYN" \/ ehdr.e_type = "ET_EXEC"
           THEN /\ ei' = processProgHeaders(f,
                            [ei EXCEPT !.marker = mkmarker(ehdr),
                                       !.archmarker = mkarchmarker(ehdr),
                                       !.isDSO = (ehdr.e_type = "ET_DYN"),
                                       !.isExec = f.st_mode \cap {"S_IXUSR", "S_IXGRP", "S_IXOTH"}])
                /\ pc' = "pf_sections"
           ELSE /\ ei' = ei
                /\ pc' = "pf_gnuhash"
    /\ scn' = 0
    /\ UNCHANGED <<flags, requires, fs, useArgs, inputs, next, fn, prc, rc, out, log,
                   heap>>

\* processSections: one turn of while ((scn = elf_nextscn(ei->elf, scn)) != NULL)
ProcessSections ==
    /\ pc = "pf_sections"
    /\ LET sections == fs[fn].sections
       IN  IF scn < Len(sections)
           THEN /\ scn' = scn + 1
                /\ ei' = processSection(sections[scn + 1], ei)
                /\ pc' = pc
           ELSE /\ scn' = scn
                /\ ei' = ei
                /\ pc' = "pf_gnuhash"
    /\ UNCHANGED <<flags, requires, fs, useArgs, inputs, next, fn, prc, rc, out, log,
                   heap>>

\* if (genRequires(ei) && ei->gotGNUHASH && !ei->gotHASH && !soname_only)
ProcessGnuHash ==
    /\ pc = "pf_gnuhash"
    /\ ei' = IF genRequires(ei) /\ ei.gotGNUHASH /\ ~ei.gotHASH /\ ~soname_only
             THEN [ei EXCEPT !.requires = argvAdd(ei.requires, s_rtld_GNU_HASH)]
             ELSE ei
    /\ pc' = "pf_soname"
    /\ UNCHANGED <<flags, requires, fs, useArgs, inputs, next, fn, scn, prc, rc, out,
                   log, heap>>

\* if (ei->isDSO && !ei->gotDEBUG) { fake the soname; add it as a provide }
SonameProvide(e, path) ==
    IF e.isDSO /\ ~e.gotDEBUG
    THEN LET e1 == IF e.soname = NULL /\ fake_soname
                   THEN [e EXCEPT !.soname = basename(path)]
                   ELSE e
         IN  IF e1.soname # NULL
             THEN [e1 EXCEPT !.provides = addDeps(e1.provides, e1.soname, NULL, e1)]
             ELSE e1
    ELSE e

ProcessSoname ==
    /\ pc = "pf_soname"
    /\ ei' = SonameProvide(ei, fn)
    /\ pc' = "pf_interp"
    /\ UNCHANGED <<flags, requires, fs, useArgs, inputs, next, fn, scn, prc, rc, out,
                   log, heap>>

\* if (ei->interp && require_interp) argvAdd(&ei->requires, ei->interp);
ProcessInterp ==
    /\ pc = "pf_interp"
    /\ ei' = IF ei.interp # NULL /\ require_interp
             THEN [ei EXCEPT !.requires = argvAdd(ei.requires, ei.interp)]
             ELSE ei
    /\ pc' = "pf_dump"
    /\ UNCHANGED <<flags, requires, fs, useArgs, inputs, next, fn, scn, prc, rc, out,
                   log, heap>>

\* rc = 0; print dtype ? ei->requires : ei->provides, one entry per line
ProcessDump ==
    /\ pc = "pf_dump"
    /\ prc' = 0
    /\ LET deps == IF requires THEN ei.requires ELSE ei.provides
       IN  /\ out' = out \o deps
           /\ log' = [log EXCEPT ![Len(log)].printed = deps]
    /\ pc' = "pf_exit"
    /\ UNCHANGED <<flags, requires, fs, useArgs, inputs, next, fn, ei, scn, rc, heap>>

\* exit: close, free everything, return rc; and main's use of the value
ProcessFileExit ==
    /\ pc = "pf_exit"
    /\ heap' = ei
    /\ ei' = NULLP
    /\ log' = [log EXCEPT ![Len(log)].returned = TRUE, ![Len(log)].rc = prc]
    /\ rc' = Aggregate(rc, prc)
    /\ pc' = IF useArgs THEN "args_loop" ELSE "stdin_loop"
    /\ UNCHANGED <<flags, requires, fs, useArgs, inputs, next, fn, scn, prc, out>>

Next ==
    \/ MainPeekArg
    \/ MainGetArg
    \/ MainFgets
    \/ MainReturn
    \/ ProcessFileOpen
    \/ ProcessFileClassify
    \/ ProcessSections
    \/ ProcessGnuHash
    \/ ProcessSoname
    \/ ProcessInterp
    \/ ProcessDump
    \/ ProcessFileExit

Spec == Init /\ [][Next]_vars

-----------------------------------------------------------------------------
(* Vocabulary of the properties: facts read off the file and off the       *)
(* entries, without the operators of the scan                             *)

\* the entries as they are printed, written out
d_libfoo_ver_64bit == <<"l", "i", "b", "f", "o", "o", ".", "s", "o", ".", "1", "(", "L", "I", "B", "F", "O", "O", "_", "1", ".", "0", ")", "(", "6", "4", "b", "i", "t", ")">>
d_libfoo_empty_64bit == <<"l", "i", "b", "f", "o", "o", ".", "s", "o", ".", "1", "(", ")", "(", "6", "4", "b", "i", "t", ")">>
d_libfoo_64bit == <<"l", "i", "b", "f", "o", "o", ".", "s", "o", ".", "1", "(", "6", "4", "b", "i", "t", ")">>
d_libq_so_2 == <<"l", "i", "b", "q", ".", "s", "o", ".", "2">>

XBits == {"S_IXUSR", "S_IXGRP", "S_IXOTH"}

IsElf(f) == f.openable /\ f.elf_kind = "ELF_K_ELF" /\ f.ehdr # NULLP

\* opened, elf_begin succeeded, but the kind is not ELF_K_ELF
IsNotElfKind(f) == f.openable /\ f.elf_kind \notin {"NULL", "ELF_K_ELF"}

FileExec(f) == f.st_mode \cap XBits # {}

InterpHeaders(f) ==
    {i \in 1..Len(f.phdrs) : f.phdrs[i].p_type = "PT_INTERP" /\ f.phdrs[i].p_offset < f.maxsize}

HasInterp(f) == InterpHeaders(f) # {}

\* the string of the first usable PT_INTERP header
InterpOf(f) ==
    f.rawfile[f.phdrs[CHOOSE i \in InterpHeaders(f) :
                          \A k \in InterpHeaders(f) : i <= k].p_offset]

\* the tags of the dynamic table(s) of f
DynTags(f) ==
    UNION {{f.sections[k].data[i].d_tag : i \in 1..Len(f.sections[k].data)} :
             k \in {k \in 1..Len(f.sections) : f.sections[k].sh_type = "SHT_DYNAMIC"}}

\* the part of an entry before its first "(", the whole entry if it has none
Base(e) ==
    LET at == {i \in 1..Len(e) : e[i] = "("}
    IN  IF at = {} THEN e
        ELSE SubSeq(e, 1, (CHOOSE i \in at : \A k \in at : i <= k) - 1)

\* the text between the first "(" of an entry and the first ")" after it
Ver(e) ==
    LET op == CHOOSE i \in 1..Len(e) : e[i] = "(" /\ \A k \in 1..(i - 1) : e[k] # "("
        cl == CHOOSE i \in (op + 1)..Len(e) :
                  e[i] = ")" /\ \A k \in (op + 1)..(i - 1) : e[k] # ")"
    IN  SubSeq(e, op + 1, cl - 1)

HasDotSo(s) == \E i \in 1..(Len(s) - 2) : s[i] = "." /\ s[i + 1] = "s" /\ s[i + 2] = "o"

StartsWith(s, p) == Len(s) >= Len(p) /\ \A i \in 1..Len(p) : s[i] = p[i]

Blank(s) == \A i \in 1..Len(s) : s[i] \in {" ", "\t", "\n", "\r", "\f", "VT"}

\* the text after the last '/' of a path, the whole path if it has none
FinalComponent(p) ==
    CHOOSE s \in {SubSeq(p, i, Len(p)) : i \in 1..(Len(p) + 1)} :
        /\ \A i \in 1..Len(s) : s[i] # "/"
        /\ (Len(s) = Len(p) \/ p[Len(p) - Len(s)] = "/")

Elems(s) == {s[i] : i \in 1..Len(s)}

\* the calls of processFile that have returned
Returned == {i \in 1..Len(log) : log[i].returned}

\* processFile has an elfInfo and has finished every scan and policy step
AtEnd == pc = "pf_dump"

\* the require-interpreter step of the call is behind
PastInterp == pc \in {"pf_dump", "pf_exit"}

-----------------------------------------------------------------------------
(* C1 *)

\* the object of the example: 64-bit x86_64 ET_DYN, no DT_DEBUG,
\* DT_SONAME libfoo.so.1, a base record libfoo.so.1 and one non-base record
\* with the single auxiliary name LIBFOO_1.0
IsExampleObject(f) ==
    /\ IsElf(f)
    /\ f.ehdr = Ehdr("ET_DYN", "ELFCLASS64", "ELFDATA2LSB", "EM_X86_64")
    /\ f.sections = LibFoo(1).sections

ExampleRuns ==
    {i \in Returned : /\ IsExampleObject(fs[log[i].fn])
                      /\ ~requires /\ ~add_arch /\ add_nonarch /\ ~soname_only}

\* C1 as stated: the example object, architecture marker off and word-size
\* marker on, prints libfoo.so.1(64bit) and then libfoo.so.1(LIBFOO_1.0)(64bit).
C1_Original ==
    \A i \in ExampleRuns : log[i].printed = <<d_libfoo_64bit, d_libfoo_ver_64bit>>

\* C1 amended: the example object, architecture marker off, word-size marker
\* on and soname-only off, prints in provides mode exactly
\* libfoo.so.1(LIBFOO_1.0)(64bit) and then libfoo.so.1()(64bit): the versioned
\* entry comes first (it is found during the section scan) and the soname
\* entry carries an empty version slot.
C1_ExampleProvides ==
    \A i \in ExampleRuns : log[i].printed = <<d_libfoo_ver_64bit, d_libfoo_empty_64bit>>

C1_Witness ==
    \E i \in ExampleRuns : log[i].printed = <<d_libfoo_ver_64bit, d_libfoo_empty_64bit>>

-----------------------------------------------------------------------------
(* C2 *)

\* requires-mode runs, soname-only off, on a shared object whose dynamic
\* table has DT_GNU_HASH and no DT_HASH
GnuHashRuns ==
    {i \in Returned : LET f == fs[log[i].fn]
                      IN  /\ IsElf(f)
                          /\ f.ehdr.e_type = "ET_DYN"
                          /\ "DT_GNU_HASH" \in DynTags(f)
                          /\ "DT_HASH" \notin DynTags(f)
                          /\ requires /\ ~soname_only}

\* C2 as stated: every such run prints rtld(GNU_HASH), whatever the
\* interpreter, the executable bits, DT_DEBUG and the other flags are.
C2_Original ==
    \A i \in GnuHashRuns : s_rtld_GNU_HASH \in Elems(log[i].printed)

\* C2 amended: such a run prints rtld(GNU_HASH) exactly when the requires gate
\* is open, that is unless the object carries an interpreter path and the file
\* has no executable bit; DT_DEBUG and the other flags do not matter.
C2_GnuHashToken ==
    \A i \in GnuHashRuns :
        LET f == fs[log[i].fn]
        IN  s_rtld_GNU_HASH \in Elems(log[i].printed) <=> ~(HasInterp(f) /\ ~FileExec(f))

C2_Witness ==
    \E i \in GnuHashRuns :
        LET f == fs[log[i].fn]
        IN  /\ ~HasInterp(f) /\ ~FileExec(f) /\ "DT_DEBUG" \in DynTags(f)
            /\ s_rtld_GNU_HASH \in Elems(log[i].printed)

-----------------------------------------------------------------------------
(* C3 *)

\* a shared object with an interpreter path, in a file without executable bit
GatedObject(f) ==
    IsElf(f) /\ f.ehdr.e_type = "ET_DYN" /\ HasInterp(f) /\ ~FileExec(f)

\* C3 as stated: the requires list of such an object is empty at the end of
\* processFile, whatever the flags are, require-interpreter included.
C3_Original ==
    (AtEnd /\ GatedObject(fs[fn])) => ei.requires = <<>>

\* C3 amended: at the end of processFile the requires list of such an object
\* is empty when require-interpreter is off, and holds the interpreter path
\* and nothing else when require-interpreter is on.
C3_GatedRequires ==
    (AtEnd /\ GatedObject(fs[fn])) =>
        ei.requires = IF require_interp THEN <<InterpOf(fs[fn])>> ELSE <<>>

C3_Witness ==
    /\ AtEnd /\ GatedObject(fs[fn])
    /\ "DT_NEEDED" \in DynTags(fs[fn]) /\ "DT_GNU_HASH" \in DynTags(fs[fn])
    /\ \E k \in 1..Len(fs[fn].sections) : fs[fn].sections[k].sh_type = "SHT_GNU_verneed"
    /\ ~require_interp /\ add_nonarch /\ ~soname_only
    /\ ei.requires = <<>>

-----------------------------------------------------------------------------
(* C4 *)

\* an ET_DYN object without DT_DEBUG and without DT_SONAME, fake-soname on
FakeSonameCase ==
    /\ AtEnd
    /\ IsElf(fs[fn])
    /\ fs[fn].ehdr.e_type = "ET_DYN"
    /\ "DT_DEBUG" \notin DynTags(fs[fn])
    /\ "DT_SONAME" \notin DynTags(fs[fn])
    /\ fake_soname

HasFakeProvide == \E e \in Elems(ei.provides) : Base(e) = FinalComponent(fn)

\* C4 as stated: the provides list has an entry whose base name is the final
\* component of the input path, for every input path (a decoration pass
\* being enabled, without which nothing is ever emitted).
C4_Original == (FakeSonameCase /\ (add_nonarch \/ add_arch)) => HasFakeProvide

\* C4 amended: the entry is there whenever a decoration pass is enabled and
\* the final component is accepted by the soname filter (not blank and, with
\* strict filtering on, containing ".so" and starting with "lib"); it is not
\* there when no pass is enabled, or when strict filtering is on and the
\* final component has no ".so".
C4_FakeSonameProvide ==
    FakeSonameCase =>
        LET bn == FinalComponent(fn)
        IN  /\ ( /\ (add_nonarch \/ add_arch)
                 /\ ~Blank(bn)
                 /\ (filter_soname => (HasDotSo(bn) /\ StartsWith(bn, s_lib))) )
               => HasFakeProvide
            /\ ( \/ ~(add_nonarch \/ add_arch)
                 \/ (filter_soname /\ ~HasDotSo(bn)) )
               => ~HasFakeProvide

C4_Witness ==
    /\ FakeSonameCase /\ filter_soname /\ add_nonarch
    /\ FinalComponent(fn) = d_libq_so_2
    /\ fn # d_libq_so_2
    /\ HasFakeProvide

-----------------------------------------------------------------------------
(* C5 *)

InCall == ei # NULLP

\* C5 as stated: with strict filtering on, no entry of provides or requires,
\* whichever scan step added it (the interpreter requirement included), has a
\* base name without ".so"; the synthetic rtld(GNU_HASH) token names no soname
\* and is left out of the count.
C5_Original ==
    (InCall /\ filter_soname) =>
        /\ \A e \in Elems(ei.provides) : HasDotSo(Base(e))
        /\ \A e \in Elems(ei.requires) : e = s_rtld_GNU_HASH \/ HasDotSo(Base(e))

\* C5 amended: with strict filtering on, every entry added through addDep
\* (DT_SONAME, DT_NEEDED, version definitions, version requirements, the fake
\* soname) has a base name containing ".so"; the interpreter path, appended
\* verbatim by the require-interpreter step, is not filtered.
C5_FilteredEntriesHaveDotSo ==
    (InCall /\ filter_soname) =>
        /\ \A e \in Elems(ei.provides) : HasDotSo(Base(e))
        /\ \A k \in 1..Len(ei.requires) :
              \/ ei.requires[k] = s_rtld_GNU_HASH
              \/ HasDotSo(Base(ei.requires[k]))
              \/ /\ require_interp /\ PastInterp
                 /\ k = Len(ei.requires)
                 /\ HasInterp(fs[fn])
                 /\ ei.requires[k] = InterpOf(fs[fn])

C5_Witness ==
    /\ InCall /\ filter_soname /\ AtEnd /\ add_nonarch
    /\ \E i \in 1..Len(fs[fn].sections) :
          /\ fs[fn].sections[i].sh_type = "SHT_DYNAMIC"
          /\ \E j \in 1..Len(fs[fn].sections[i].data) :
                /\ fs[fn].sections[i].data[j].d_tag = "DT_NEEDED"
                /\ ~Blank(fs[fn].sections[i].data[j].d_val)
                /\ ~HasDotSo(fs[fn].sections[i].data[j].d_val)
    /\ Len(ei.requires) >= 2

-----------------------------------------------------------------------------
(* C6 *)

\* C6: a path that opens but is not an ELF object (elf_kind is not ELF_K_ELF)
\* prints nothing and processFile returns 0 for it.
C6_NotElfReportsSuccess ==
    \A i \in Returned :
        IsNotElfKind(fs[log[i].fn]) => (log[i].printed = <<>> /\ log[i].rc = 0)

-----------------------------------------------------------------------------
(* C7 *)

\* the failures the batch must survive: open/stat fails, or the header of an
\* ELF object cannot be read
OpenOrHeaderFailure(f) ==
    ~f.openable \/ (f.elf_kind = "ELF_K_ELF" /\ f.ehdr = NULLP)

RECURSIVE Flatten(_)
Flatten(ss) == IF ss = <<>> THEN <<>> ELSE Head(ss) \o Flatten(Tail(ss))

\* C7: when main returns, every input path has been processed, in order,
\* whether or not an earlier path failed (an open or header failure makes
\* processFile fail, a readable ELF object makes it succeed); what each call
\* printed is on stdout; and the exit status is non-zero iff processFile
\* failed for some path.
C7_BatchContinues ==
    pc = "done" =>
        /\ Len(log) = Len(inputs)
        /\ \A i \in 1..Len(log) :
              /\ log[i].returned
              /\ IF useArgs THEN log[i].fn = inputs[i]
                            ELSE log[i].fn \o <<"\n">> = inputs[i]
              /\ OpenOrHeaderFailure(fs[log[i].fn]) => log[i].rc # 0
              /\ IsElf(fs[log[i].fn]) => log[i].rc = 0
        /\ out = Flatten([i \in 1..Len(log) |-> log[i].printed])
        /\ (rc # 0) <=> (\E i \in 1..Len(log) : log[i].rc # 0)

C7_Witness ==
    /\ pc = "done"
    /\ Len(log) = 2
    /\ OpenOrHeaderFailure(fs[log[1].fn])
    /\ log[1].rc # 0
    /\ log[2].rc = 0
    /\ log[2].printed # <<>>
    /\ out = log[2].printed
    /\ rc = EXIT_FAILURE

-----------------------------------------------------------------------------
(* C8 *)

\* C8: every call of processFile starts from a zeroed elfInfo, no step writes
\* a configuration flag, and a call that returns has printed and returned
\* what every earlier call on the same path printed and returned.
C8_SameOutputEveryRun ==
    [][ /\ flags' = flags
        /\ (pc # "pf_open" /\ pc' = "pf_open") => ei' = ZeroElfInfo
        /\ (pc = "pf_exit" /\ pc' # "pf_exit") =>
              \A i \in 1..(Len(log') - 1) :
                  log'[i].fn = log'[Len(log')].fn =>
                      /\ log'[i].printed = log'[Len(log')].printed
                      /\ log'[i].rc = log'[Len(log')].rc ]_vars

C8_Witness ==
    /\ pc = "done"
    /\ Len(log) = 2
    /\ log[1].fn = log[2].fn
    /\ log[1].printed # <<>>
    /\ log[1].printed = log[2].printed

-----------------------------------------------------------------------------
(* C9 *)

\* the entries that went through addDep: all but the synthetic token and the
\* interpreter path appended at the end
FilteredEntries ==
    Elems(ei.provides) \cup
    {ei.requires[k] : k \in {k \in 1..Len(ei.requires) :
        /\ ei.requires[k] # s_rtld_GNU_HASH
        /\ ~(PastInterp /\ require_interp /\ HasInterp(fs[fn]) /\ k = Len(ei.requires))}}

\* C9: with strict filtering on, every entry's soname starts with "lib" or
\* with one of the loader prefixes "ld.", "ld-", "ld64.", "ld64-", each
\* compared at its full length.
C9_OnlyLibAndLoaderPrefixes ==
    (InCall /\ filter_soname) =>
        \A e \in FilteredEntries :
            \/ StartsWith(Base(e), s_lib)
            \/ StartsWith(Base(e), s_ld_dot)
            \/ StartsWith(Base(e), s_ld_dash)
            \/ StartsWith(Base(e), s_ld64_dot)
            \/ StartsWith(Base(e), s_ld64_dash)

-----------------------------------------------------------------------------
(* C10 *)

\* the names of an auxiliary chain of cnt entries, following vda_next
RECURSIVE AuxChain(_, _, _)
AuxChain(data, auxoffset, cnt) ==
    IF cnt = 0 THEN <<>>
    ELSE <<data.verdaux[auxoffset].vda_name>>
         \o AuxChain(data, auxoffset + data.verdaux[auxoffset].vda_next, cnt - 1)

\* the version names a walk of the records owes: for every non-base record
\* that follows a base record, its chain; base is the name of the last base
\* record seen, NULL before the first
RECURSIVE OwedNames(_, _, _, _)
OwedNames(data, i, offset, base) ==
    IF i = 0 THEN <<>>
    ELSE LET def == data.verdef[offset]
             chain == AuxChain(data, offset + def.vd_aux, def.vd_cnt)
         IN  IF "VER_FLG_BASE" \in def.vd_flags
             THEN OwedNames(data, i - 1, offset + def.vd_next, chain[Len(chain)])
             ELSE (IF base # NULL /\ ~skipSoname(base) THEN chain ELSE <<>>)
                  \o OwedNames(data, i - 1, offset + def.vd_next, base)

\* each element of s, times times in a row
Repeat(s, times) == [k \in 1..(Len(s) * times) |-> s[((k - 1) \div times) + 1]]

Passes == (IF add_nonarch THEN 1 ELSE 0) + (IF add_arch THEN 1 ELSE 0)

\* the object has been scanned and its first section holds version definitions
VerDefScanned ==
    /\ pc = "pf_gnuhash"
    /\ IsElf(fs[fn])
    /\ fs[fn].ehdr.e_type \in {"ET_DYN", "ET_EXEC"}
    /\ \E k \in 1..Len(fs[fn].sections) : fs[fn].sections[k].sh_type = "SHT_GNU_verdef"

VerDefSection ==
    fs[fn].sections[CHOOSE k \in 1..Len(fs[fn].sections) :
                        fs[fn].sections[k].sh_type = "SHT_GNU_verdef"]

\* C10: after the version-definition scan, soname-only off, each decoration
\* pass has emitted one provides entry per auxiliary entry of every non-base
\* record that follows a base record, carrying that entry's own name, in
\* chain order.
C10_EveryAuxNameEmitted ==
    (VerDefScanned /\ ~soname_only) =>
        [k \in 1..Len(ei.provides) |-> Ver(ei.provides[k])]
            = Repeat(OwedNames(VerDefSection.data, VerDefSection.sh_info, 0, NULL), Passes)
====
